---- MODULE Spec2Model ----
(***************************************************************************)
(* uconfig: binding of a typed configuration tree (Variable, Vector,       *)
(* Config) to a format, with the Parse / Emit traversal of the interfaces  *)
(* in include/uconfig/impl/Interface.ipp and the objects of                *)
(* include/uconfig/impl/Objects.ipp.                                       *)
(*                                                                         *)
(* The tree that is modelled is                                            *)
(*                                                                         *)
(*   struct Nested : Config { Variable<int> x; Variable<int> y; };         *)
(*   struct Root   : Config { Variable<int> a; Nested g; Vector<int> v; }; *)
(*                                                                         *)
(* bound to the Rapidjson format ("/"-separated paths).  Which members are *)
(* optional or pre-seeded is chosen when the tree is constructed.          *)
(***************************************************************************)
EXTENDS Integers, Sequences, FiniteSets, TLC

\* A source holds vector elements at indices 0..MaxLen-1 at most.
MaxLen == 3
\* Number of Parse / Emit passes run on one tree.
MaxPasses == 2

\* The value a pre-seeded Variable or Vector is constructed with
\* (default_int of the tests).
DefaultInt == 300
\* The ints a source holds (the values the tests' sources hold).
Ints == {100, 123}

VARIABLES
    variables,  \* Variable<int> objects: name -> [optional_, value_]
    vectors,    \* Vector<int> objects:   name -> [optional_, value_]
    configs,    \* Config objects: name -> [optional_, elements_, register_formats_, interfaces_]
    source,     \* the document parsed from: path -> json value, or the
                \* environment: name -> string (present paths only)
    dest,       \* the destination of the last Emit: path -> json value or string
    last,       \* outcome of the last pass
    passes,     \* passes run so far
    validators, \* the objects whose class overrides Validate()
    read,       \* outcome of the last read of the value of an object
    formatter,  \* the formatter the caller passes to Parse and Emit: its name
    probing,    \* a call of VectorIface<T, F>::Parse in progress, for T an int
                \* or a Config: the Vector, index, last_error and the outcome
    race        \* the bindings of the root that exist, and the position of
                \* each thread that is inside Config::Parse of the root

vars == <<variables, vectors, configs, source, dest, last, passes, validators, read,
          formatter, probing, race>>

\* What the passes on the tree leave alone.
rest == <<validators, read, formatter, probing, race>>

----------------------------------------------------------------------------
(* std::optional<T>: the empty sequence is std::nullopt, <<v>> holds v.    *)

\* The element of a one-element set: The({e(r) : r \in {call}}) is e(r) with
\* r the value of the call, which is made once.
The(S) == CHOOSE y \in S : TRUE

nullopt == <<>>
Some(v) == <<v>>
has_value(o) == o # nullopt

----------------------------------------------------------------------------
(* The tree.                                                               *)

Variables == {"a", "x", "y"}
Vectors == {"v"}
Configs == {"root", "g"}

Kind(element) ==
    IF element \in Variables THEN "Variable"
    ELSE IF element \in Vectors THEN "Vector"
    ELSE "Config"

\* EnvFormat::name and RapidjsonFormat::name; the formats of
\* Config<EnvFormat, RapidjsonFormat<>>
EnvName == "[ENV]"
RapidjsonName == "[JSON]"
Formats == {EnvName, RapidjsonName}

\* Config::Init of each Config of the tree: the Register<F> calls in
\* declaration order, each with its path under config_path.
Decl(c, config_path) ==
    IF c = "root"
    THEN << [format |-> EnvName, path |-> config_path \o "_A", elem |-> "a"],
            [format |-> EnvName, path |-> config_path \o "_G", elem |-> "g"],
            [format |-> EnvName, path |-> config_path \o "_V", elem |-> "v"],
            [format |-> RapidjsonName, path |-> config_path \o "/a", elem |-> "a"],
            [format |-> RapidjsonName, path |-> config_path \o "/g", elem |-> "g"],
            [format |-> RapidjsonName, path |-> config_path \o "/v", elem |-> "v"] >>
    ELSE IF c = "g"
    THEN << [format |-> EnvName, path |-> config_path \o "_X", elem |-> "x"],
            [format |-> EnvName, path |-> config_path \o "_Y", elem |-> "y"],
            [format |-> RapidjsonName, path |-> config_path \o "/x", elem |-> "x"],
            [format |-> RapidjsonName, path |-> config_path \o "/y", elem |-> "y"] >>
    ELSE IF c = "VarConfig"
    THEN << [format |-> EnvName, path |-> config_path \o "_X", elem |-> "x"],
            [format |-> RapidjsonName, path |-> config_path \o "/x", elem |-> "x"] >>
    ELSE << [format |-> EnvName, path |-> config_path \o "_Y", elem |-> "y"],
            [format |-> RapidjsonName, path |-> config_path \o "/y", elem |-> "y"] >>

\* Variable<T>::Variable() and Variable<T>::Variable(const T&)
NewVariable == [optional_ |-> FALSE, value_ |-> nullopt]
SeededVariable(init_value) == [optional_ |-> TRUE, value_ |-> Some(init_value)]

\* Vector<T>::Vector(bool optional) and Vector<T>::Vector(const std::vector<T>&)
NewVector(optional) == [optional_ |-> optional, value_ |-> nullopt]
SeededVector(init_value) == [optional_ |-> TRUE, value_ |-> Some(init_value)]

\* Config::Config(bool optional)
NewConfig(optional) ==
    [optional_ |-> optional, elements_ |-> {}, register_formats_ |-> {},
     interfaces_ |-> [F \in Formats |-> <<>>]]

----------------------------------------------------------------------------
(* The formats: EnvFormat and RapidjsonFormat.                             *)

\* format_type::name of the formatter of the pass
FormatName == formatter

JsonInt(n) == [type |-> "int", n |-> n]
JsonString == [type |-> "string", n |-> 0]

\* EnvFormat::VectorElementPath and RapidjsonFormat::VectorElementPath
VectorElementPath(vector_path, index) ==
    IF formatter = EnvName
    THEN vector_path \o "_" \o ToString(index)
    ELSE vector_path \o "/" \o ToString(index)

\* std::istringstream >> int on the strings the environment holds: the int
\* read from the head of the string, nullopt when the stream fails.
Extract(str) ==
    CASE str = "100" -> Some(100)
      [] str = "123" -> Some(123)
      [] str = "0123" -> Some(123)
      [] str = "123x" -> Some(123)
      [] OTHER -> nullopt

\* EnvFormat::FromString<int>
FromString(str) ==
    The({IF result = nullopt \/ ToString(result[1]) # str THEN nullopt ELSE result :
         result \in {Extract(str)}})

\* EnvFormat::Parse<int>: std::getenv(path), then FromString
EnvParse(src, path) ==
    IF path \notin DOMAIN src THEN nullopt ELSE FromString(src[path])

\* EnvFormat::Emit<int>: dest->emplace(path, ToString(value)), which keeps an
\* entry that is already there
EnvEmit(d, path, value) ==
    IF path \in DOMAIN d THEN d ELSE (path :> ToString(value)) @@ d

\* RapidjsonFormat::Get: the value at path, or null
Get(src, path) == IF path \in DOMAIN src THEN Some(src[path]) ELSE nullopt

\* RapidjsonFormat::Convert<int>
Convert(target) == IF target.type = "int" THEN Some(target.n) ELSE nullopt

\* RapidjsonFormat::Parse<int>
RapidjsonParse(src, path) ==
    LET target == Get(src, path)
    IN  IF target = nullopt THEN nullopt ELSE Convert(target[1])

\* parser.Parse<int>(source, path) of the formatter of the pass
FormatParse(src, path) ==
    IF formatter = EnvName THEN EnvParse(src, path) ELSE RapidjsonParse(src, path)

\* Mutant: the value is written as a JSON string.
FormatEmitString(d, path, value) == (path :> JsonString) @@ d

\* RapidjsonFormat::Emit<int>: Set(MakeJson(value), path, dest)
RapidjsonEmit(d, path, value) == (path :> JsonInt(value)) @@ d

\* emitter.Emit<int>(dest, path, value) of the formatter of the pass
FormatEmit(d, path, value) ==
    IF formatter = EnvName THEN EnvEmit(d, path, value) ELSE RapidjsonEmit(d, path, value)

----------------------------------------------------------------------------
(* Objects (Objects.ipp).  st is the store of all objects of the tree:     *)
(* [variables, vectors, configs].                                          *)

\* Variable<T>::Initialized
VariableInitialized(var) == var.value_ # nullopt

\* Variable<T>::Optional
VariableOptional(var) == var.optional_

\* Mutant: no Config is optional.
ConfigOptionalNever(cfg) == FALSE

\* Config::Optional
ConfigOptional(cfg) == cfg.optional_

RECURSIVE ConfigInitialized(_, _)

\* Object::Initialized, dispatched on the dynamic type of the element
ElemInitialized(st, element) ==
    IF Kind(element) = "Variable" THEN VariableInitialized(st.variables[element])
    ELSE IF Kind(element) = "Vector" THEN VariableInitialized(st.vectors[element])
    ELSE ConfigInitialized(st, element)

\* Object::Optional, dispatched on the dynamic type of the element
ElemOptional(st, element) ==
    IF Kind(element) = "Variable" THEN VariableOptional(st.variables[element])
    ELSE IF Kind(element) = "Vector" THEN VariableOptional(st.vectors[element])
    ELSE ConfigOptional(st.configs[element])

\* Mutant: Optional() of the elements is not consulted.
ConfigInitializedAll(st, c) ==
    \A elem \in st.configs[c].elements_ : ElemInitialized(st, elem)

\* Mutant: nested Configs are not consulted.
ConfigInitializedShallow(st, c) ==
    \A elem \in st.configs[c].elements_ :
        Kind(elem) = "Config" \/ ~(~ElemInitialized(st, elem) /\ ~ElemOptional(st, elem))

\* Mutant: the value is handed out without the check that it is set.
VariableGetUnchecked(var) ==
    [raised |-> FALSE, what |-> "",
     value |-> IF var.value_ = nullopt THEN Some(DefaultInt) ELSE var.value_]

\* Variable<T>::Get: [raised, what, value]
VariableGet(var) ==
    IF ~VariableInitialized(var)
    THEN [raised |-> TRUE, what |-> "failed to get variable value: it is not set",
          value |-> nullopt]
    ELSE [raised |-> FALSE, what |-> "", value |-> var.value_]

\* Variable<T>::operator*, operator-> and operator T&
Dereference(var) == VariableGet(var)
StructureDereference(var) == VariableGet(var)
Conversion(var) == VariableGet(var)

\* operator+ and operator- for Variable<V> and V
Plus(var, rhs) ==
    The({IF got.raised THEN got ELSE [got EXCEPT !.value = Some(@[1] + rhs)] :
         got \in {VariableGet(var)}})
Minus(var, rhs) ==
    The({IF got.raised THEN got ELSE [got EXCEPT !.value = Some(@[1] - rhs)] :
         got \in {VariableGet(var)}})

\* Config::Initialized: no registered element is uninitialized and mandatory
ConfigInitialized(st, c) ==
    \A elem \in st.configs[c].elements_ :
        ~(~ElemInitialized(st, elem) /\ ~ElemOptional(st, elem))

\* Mutant: nothing is cleared.
ResetKeeps(cfg) == cfg

\* Config::Reset
Reset(cfg) ==
    [cfg EXCEPT !.elements_ = {}, !.interfaces_ = [F \in Formats |-> <<>>],
                !.register_formats_ = {}]

\* Config::SetFormat<F>
SetFormat(cfg, F) == [cfg EXCEPT !.register_formats_ = @ \cup {F}]

\* Mutant of the guard: Register<F> never returns early.
RegisterSkipsNever(cfg, F) == FALSE

\* Config::Register<F, T>, the guard of the early return
RegisterSkips(cfg, F) == F \notin cfg.register_formats_

RECURSIVE ConfigIfaceCtor(_, _, _, _)

\* Config::Register<F, T>: build the element's interface at element_path
\* (for a nested Config this runs its ConfigIface constructor), append it to
\* the interfaces of F and remember the element.
Register(cfgs, c, F, element_path, element) ==
    IF RegisterSkips(cfgs[c], F) THEN cfgs
    ELSE LET built == IF Kind(element) = "Config"
                      THEN ConfigIfaceCtor(cfgs, F, element_path, element)
                      ELSE cfgs
         IN  [built EXCEPT
                ![c].interfaces_[F] = Append(@, [path |-> element_path, elem |-> element]),
                ![c].elements_ = @ \cup {element}]

RECURSIVE RegisterAll(_, _, _, _)
\* Config::Init(config_path): the Register calls of the declaration, in order
RegisterAll(cfgs, c, decl, i) ==
    IF i > Len(decl) THEN cfgs
    ELSE RegisterAll(Register(cfgs, c, decl[i].format, decl[i].path, decl[i].elem),
                     c, decl, i + 1)

\* ConfigIface<Format>::ConfigIface(parse_path, config)
ConfigIfaceCtor(cfgs, F, parse_path, c) ==
    LET reset == [cfgs EXCEPT ![c] = SetFormat(Reset(cfgs[c]), F)]
    IN  RegisterAll(reset, c, Decl(c, parse_path), 1)

----------------------------------------------------------------------------
(* Interfaces (Interface.ipp): Parse.  A call returns                      *)
(* [st, raised, what, parsed]: the store it leaves, whether it threw an    *)
(* uconfig::Error, the message, and the value returned if it did not.      *)

Return(st, parsed) == [st |-> st, raised |-> FALSE, what |-> "", parsed |-> parsed]
Throw(st, what) == [st |-> st, raised |-> TRUE, what |-> what, parsed |-> FALSE]

NotValid(path, why) == FormatName \o " config '" \o path \o "' is not valid: " \o why

\* The ints an overriding Validate() rejects.
Rejected == {100}

\* Whether an object holds an int that an overriding Validate() rejects.
HoldsRejected(var) == var.value_ # nullopt /\ var.value_[1] \in Rejected

\* Whether the overriding Validate() of an object throws: that of a Variable
\* when it holds a rejected int, that of a Vector when one of its elements is
\* one, that of a Config when one of the Variables it declares holds one.
ValidateThrows(st, element) ==
    IF Kind(element) = "Variable" THEN HoldsRejected(st.variables[element])
    ELSE IF Kind(element) = "Vector"
    THEN /\ st.vectors[element].value_ # nullopt
         /\ \E i \in DOMAIN st.vectors[element].value_[1] :
                st.vectors[element].value_[1][i] \in Rejected
    ELSE \E n \in Variables :
            /\ \E i \in DOMAIN Decl(element, "") : Decl(element, "")[i].elem = n
            /\ HoldsRejected(st.variables[n])

\* Mutant: the hook is not run.
ValidateSkipped(st, element) == nullopt

\* Object::Validate: the default hook accepts (nullopt: nothing thrown), an
\* override throws uconfig::Error.
Validate(st, element) ==
    IF element \in validators /\ ValidateThrows(st, element)
    THEN Some("invalid " \o element)
    ELSE nullopt

\* Mutants of the guard: the throw forgotten; the throw on every missing value.
VariableNotSetNeverThrows(var, throw_on_fail) == FALSE
VariableNotSetAlwaysThrows(var, throw_on_fail) == throw_on_fail

\* VariableIface::Parse, the guard of the throw on a missing value
VariableNotSetThrows(var, throw_on_fail) ==
    ~VariableInitialized(var) /\ throw_on_fail

\* Mutant: the hook run on the parsed value before it is assigned, so that a
\* rejected value is not stored when the error is raised.
VariableIfaceParseRollsBack(st, path, n, src, throw_on_fail) ==
    LET result_opt == FormatParse(src, path)
    IN  IF result_opt = nullopt
        THEN IF VariableNotSetThrows(st.variables[n], throw_on_fail)
             THEN Throw(st, NotValid(path, "variable is not set"))
             ELSE Return(st, FALSE)
        ELSE LET stored == [st EXCEPT !.variables[n].value_ = Some(result_opt[1])]
             IN  IF Validate(stored, n) # nullopt /\ throw_on_fail
                 THEN Throw(st, Validate(stored, n)[1])
                 ELSE Return(stored, TRUE)

\* VariableIface<T, Format>::Parse
VariableIfaceParse(st, path, n, src, throw_on_fail) ==
    LET result_opt == FormatParse(src, path)
    IN  IF result_opt = nullopt
        THEN IF VariableNotSetThrows(st.variables[n], throw_on_fail)
             THEN Throw(st, NotValid(path, "variable is not set"))
             ELSE Return(st, FALSE)
        ELSE LET stored == [st EXCEPT !.variables[n].value_ = Some(result_opt[1])]
             IN  IF Validate(stored, n) # nullopt /\ throw_on_fail
                 THEN Throw(stored, Validate(stored, n)[1])
                 ELSE Return(stored, TRUE)

\* ValueIface<T, Format>::Optional
ValueOptional == FALSE

\* ValueIface<T, Format>::Parse on a local element: [raised, what, value]
ValueIfaceParse(path, src, throw_on_fail) ==
    LET result_opt == FormatParse(src, path)
    IN  IF result_opt = nullopt
        THEN IF ~ValueOptional /\ throw_on_fail
             THEN [raised |-> TRUE, what |-> NotValid(path, "variable is not set"),
                   value |-> nullopt]
             ELSE [raised |-> FALSE, what |-> "", value |-> nullopt]
        ELSE [raised |-> FALSE, what |-> "", value |-> result_opt]

\* Mutant of the guard: the stored vector is emptied only when it is unset.
VectorStartsOverUnset(vec, index) == ~VariableInitialized(vec)

\* Mutant of the guard: a pre-seeded vector is never emptied.
VectorStartsOverSeeded(vec, index) ==
    ~VariableInitialized(vec) \/ (index = 0 /\ ~VariableOptional(vec))

\* VectorIface::Parse, the guard that empties the stored vector before the
\* element is appended
VectorStartsOver(vec, index) == ~VariableInitialized(vec) \/ index = 0

RECURSIVE VectorProbe(_, _, _, _)
\* VectorIface::Parse, the while (true) loop from index on:
\* [vec, index, last_error] when it breaks
VectorProbe(vec, path, src, index) ==
    LET r == ValueIfaceParse(VectorElementPath(path, index), src, TRUE)
    IN  IF r.raised
        THEN [vec |-> vec, index |-> index, last_error |-> Some(r.what)]
        ELSE LET emptied == IF VectorStartsOver(vec, index)
                            THEN [vec EXCEPT !.value_ = Some(<<>>)]
                            ELSE vec
                 pushed == [emptied EXCEPT
                              !.value_ = Some(Append(emptied.value_[1], r.value[1]))]
             IN  VectorProbe(pushed, path, src, index + 1)

\* Mutant of the guard: Optional() is not consulted.
VectorNotSetThrowsOptional(vec, throw_on_fail) == ~VariableInitialized(vec)
\* Mutant of the guard: Initialized() is not consulted.
VectorNotSetThrowsAlways(vec, throw_on_fail) == ~VariableOptional(vec)

\* VectorIface::Parse, the guard of the throw after the loop
VectorNotSetThrows(vec, throw_on_fail) ==
    ~VariableInitialized(vec) /\ ~VariableOptional(vec)

\* Mutant: the error of the last element is dropped.
VectorNotSetErrorOwn(path, last_error) == NotValid(path, "vector is not set")

\* VectorIface::Parse, the message of the throw after the loop
VectorNotSetError(path, last_error) ==
    IF last_error # nullopt
    THEN last_error[1]
    ELSE NotValid(path, "vector is not set")

\* VectorIface<T, Format>::Parse
VectorIfaceParse(st, path, n, src, throw_on_fail) ==
    LET probe == VectorProbe(st.vectors[n], path, src, 0)
        stored == [st EXCEPT !.vectors[n] = probe.vec]
    IN  IF VectorNotSetThrows(probe.vec, throw_on_fail)
        THEN Throw(stored, VectorNotSetError(path, probe.last_error))
        ELSE IF Validate(stored, n) # nullopt /\ throw_on_fail
             THEN Throw(stored, Validate(stored, n)[1])
             ELSE Return(stored, probe.index > 0)

\* Mutants of the guard: the test of Optional() inverted; throw_on_fail ignored.
ConfigRethrowsInverted(cfg, throw_on_fail) == ConfigOptional(cfg) /\ throw_on_fail
ConfigRethrowsAlways(cfg, throw_on_fail) == ~ConfigOptional(cfg)
\* Mutant of the guard: Optional() of the Config is not consulted.
ConfigRethrowsAnyGroup(cfg, throw_on_fail) == throw_on_fail

\* ConfigIface::Parse, the guard of the re-throw of a child's error
ConfigRethrows(cfg, throw_on_fail) == ~ConfigOptional(cfg) /\ throw_on_fail

RECURSIVE ConfigIfaceParse(_, _, _, _)

\* iface->Parse(parser, source, throw_on_fail), dispatched on the interface
IfaceParse(st, iface, src, throw_on_fail) ==
    IF Kind(iface.elem) = "Variable"
    THEN VariableIfaceParse(st, iface.path, iface.elem, src, throw_on_fail)
    ELSE IF Kind(iface.elem) = "Vector"
    THEN VectorIfaceParse(st, iface.path, iface.elem, src, throw_on_fail)
    ELSE ConfigIfaceParse(st, iface.elem, src, throw_on_fail)

\* Mutant: the result of the child assigned, not or-ed in.
ConfigParsedLast(config_parsed, iface_parsed) == iface_parsed

\* ConfigIface::Parse: config_parsed |= iface_parsed
ConfigParsed(config_parsed, iface_parsed) == config_parsed \/ iface_parsed

RECURSIVE ConfigParseLoop(_, _, _, _, _, _)
\* ConfigIface::Parse, the loop over *cfg_interfaces_ from position i on
ConfigParseLoop(st, c, i, src, throw_on_fail, config_parsed) ==
    IF i > Len(st.configs[c].interfaces_[FormatName])
    THEN Return(st, config_parsed)
    ELSE The({IF r.raised
              THEN IF ConfigRethrows(st.configs[c], throw_on_fail)
                   THEN Throw(r.st, r.what)
                   ELSE ConfigParseLoop(r.st, c, i + 1, src, throw_on_fail,
                                        ConfigParsed(config_parsed, FALSE))
              ELSE ConfigParseLoop(r.st, c, i + 1, src, throw_on_fail,
                                   ConfigParsed(config_parsed, r.parsed)) :
              r \in {IfaceParse(st, st.configs[c].interfaces_[FormatName][i], src, throw_on_fail)}})

\* ConfigIface<Format>::Parse
ConfigIfaceParse(st, c, src, throw_on_fail) ==
    The({IF r.raised THEN r
         ELSE IF Validate(r.st, c) # nullopt /\ throw_on_fail
              THEN Throw(r.st, Validate(r.st, c)[1])
              ELSE r :
         r \in {ConfigParseLoop(st, c, 1, src, throw_on_fail, FALSE)}})

\* Config::Parse<F>: iface_type<F>{path, this}.Parse(parser, source, throw_on_fail)
ConfigParse(st, c, path, src, throw_on_fail) ==
    The({ConfigIfaceParse(built, c, src, throw_on_fail) :
         built \in {[st EXCEPT !.configs = ConfigIfaceCtor(st.configs, FormatName, path, c)]}})

----------------------------------------------------------------------------
(* Interfaces (Interface.ipp): Emit.  A call returns [dest, raised, what]. *)

Emitted(d) == [dest |-> d, raised |-> FALSE, what |-> ""]
EmitThrow(d, what) == [dest |-> d, raised |-> TRUE, what |-> what]

\* Mutant: the value is written without the check that it is set.
VariableIfaceEmitUnchecked(st, path, n, d, throw_on_fail) ==
    Emitted(FormatEmit(d, path, IF VariableInitialized(st.variables[n])
                                THEN st.variables[n].value_[1] ELSE DefaultInt))

\* VariableIface<T, Format>::Emit: Variable::Get throws on an unset value
VariableIfaceEmit(st, path, n, d, throw_on_fail) ==
    IF ~VariableInitialized(st.variables[n])
    THEN IF throw_on_fail
         THEN EmitThrow(d, NotValid(path, "failed to get variable value: it is not set"))
         ELSE Emitted(d)
    ELSE Emitted(FormatEmit(d, path, st.variables[n].value_[1]))

\* ValueIface<T, Format>::Emit
ValueIfaceEmit(path, value, d) == Emitted(FormatEmit(d, path, value))

\* VectorIface::Emit, the guard of the throw when the element cannot be read
VectorEmitThrows(vec, throw_on_fail) == ~VariableOptional(vec) /\ throw_on_fail

RECURSIVE VectorEmitLoop(_, _, _, _, _)
\* VectorIface::Emit, the while (true) loop from index on
VectorEmitLoop(vec, path, index, d, throw_on_fail) ==
    LET elem_path == VectorElementPath(path, index)
    IN  IF ~VariableInitialized(vec)
        THEN IF VectorEmitThrows(vec, throw_on_fail)
             THEN EmitThrow(d, NotValid(elem_path, "failed to get variable value: it is not set"))
             ELSE Emitted(d)
        ELSE IF index >= Len(vec.value_[1])
        THEN IF VectorEmitThrows(vec, throw_on_fail)
             THEN EmitThrow(d, NotValid(elem_path, "variable is not set"))
             ELSE Emitted(d)
        ELSE LET r == ValueIfaceEmit(elem_path, vec.value_[1][index + 1], d)
             IN  IF index + 1 >= Len(vec.value_[1])
                 THEN r
                 ELSE VectorEmitLoop(vec, path, index + 1, r.dest, throw_on_fail)

\* Mutant: the loop starts at index 1.
VectorIfaceEmitFromOne(st, path, n, d, throw_on_fail) ==
    VectorEmitLoop(st.vectors[n], path, 1, d, throw_on_fail)

\* VectorIface<T, Format>::Emit
VectorIfaceEmit(st, path, n, d, throw_on_fail) ==
    VectorEmitLoop(st.vectors[n], path, 0, d, throw_on_fail)

\* Mutant of the guard: the test of Optional() inverted.
ConfigEmitRethrowsInverted(cfg, throw_on_fail) == ConfigOptional(cfg) /\ throw_on_fail

\* ConfigIface::Emit, the guard of the re-throw of a child's error
ConfigEmitRethrows(cfg, throw_on_fail) == ~ConfigOptional(cfg) /\ throw_on_fail

RECURSIVE ConfigIfaceEmit(_, _, _, _)

\* iface->Emit(emitter, dest, throw_on_fail), dispatched on the interface
IfaceEmit(st, iface, d, throw_on_fail) ==
    IF Kind(iface.elem) = "Variable"
    THEN VariableIfaceEmit(st, iface.path, iface.elem, d, throw_on_fail)
    ELSE IF Kind(iface.elem) = "Vector"
    THEN VectorIfaceEmit(st, iface.path, iface.elem, d, throw_on_fail)
    ELSE ConfigIfaceEmit(st, iface.elem, d, throw_on_fail)

RECURSIVE ConfigEmitLoop(_, _, _, _, _)
\* ConfigIface::Emit, the loop over *cfg_interfaces_ from position i on
ConfigEmitLoop(st, c, i, d, throw_on_fail) ==
    IF i > Len(st.configs[c].interfaces_[FormatName])
    THEN Emitted(d)
    ELSE The({IF r.raised /\ ConfigEmitRethrows(st.configs[c], throw_on_fail)
              THEN EmitThrow(r.dest, r.what)
              ELSE ConfigEmitLoop(st, c, i + 1, r.dest, throw_on_fail) :
              r \in {IfaceEmit(st, st.configs[c].interfaces_[FormatName][i], d, throw_on_fail)}})

\* ConfigIface<Format>::Emit
ConfigIfaceEmit(st, c, d, throw_on_fail) == ConfigEmitLoop(st, c, 1, d, throw_on_fail)

\* Config::Emit<F>: iface_type<F>{path, this}.Emit(emitter, destination, throw_on_fail);
\* [st, dest, raised, what]
ConfigEmit(st, c, path, d, throw_on_fail) ==
    The({The({[st |-> built, dest |-> r.dest, raised |-> r.raised, what |-> r.what] :
              r \in {ConfigIfaceEmit(built, c, d, throw_on_fail)}}) :
         built \in {[st EXCEPT !.configs = ConfigIfaceCtor(st.configs, FormatName, path, c)]}})

----------------------------------------------------------------------------
(* The state machine: a tree is constructed, a source is set up, and       *)
(* Parse / Emit passes run on it.                                          *)

Store == [variables |-> variables, vectors |-> vectors, configs |-> configs]

\* The path each object of the tree is declared at, for a root parsed at "".
RootPath == ""
EnvPathOf(element) ==
    CASE element = "root" -> RootPath
      [] element = "a" -> RootPath \o "_A"
      [] element = "g" -> RootPath \o "_G"
      [] element = "x" -> RootPath \o "_G_X"
      [] element = "y" -> RootPath \o "_G_Y"
      [] element = "v" -> RootPath \o "_V"
RapidjsonPathOf(element) ==
    IF element = "root" THEN RootPath
    ELSE IF element \in {"x", "y"} THEN RootPath \o "/g/" \o element
    ELSE RootPath \o "/" \o element
PathOf(element) ==
    IF formatter = EnvName THEN EnvPathOf(element) ELSE RapidjsonPathOf(element)

\* What a source may hold at a path: an int, or a value that is no int.
JsonValues == {JsonString} \cup {JsonInt(n) : n \in Ints}

VariablePaths == {PathOf(n) : n \in Variables}
ElementPaths == {VectorElementPath(PathOf("v"), i) : i \in 0..(MaxLen - 1)}

NoDocument == [p \in {} |-> JsonString]

DocumentsOver(paths) == UNION {[P -> JsonValues] : P \in SUBSET paths}

\* A document holding value at the path of element, or nothing.
At(path, values) == {NoDocument} \cup {path :> v : v \in values}

\* Sources over the Variables of the tree: an int, a value that is no int or
\* none for a, an int or none for x and y, and the vector absent or holding
\* one element.
TreeSources ==
    {sa @@ sx @@ sy @@ sv :
        sa \in At(PathOf("a"), {JsonString, JsonInt(123)}),
        sx \in At(PathOf("x"), {JsonInt(123)}),
        sy \in At(PathOf("y"), {JsonInt(100)}),
        sv \in At(VectorElementPath(PathOf("v"), 0), {JsonInt(123)})}

\* Sources over the elements of the vector: any value or none at each index.
VectorSources == DocumentsOver(ElementPaths)

NoPass == [op |-> "none", elem |-> "root", throw_on_fail |-> FALSE, before |-> FALSE,
           raised |-> FALSE, what |-> "", parsed |-> FALSE]

\* Trees of every shape (x is mandatory in all of them), parsed from the
\* sources over their Variables.
InitTree ==
    /\ variables \in {[a |-> va, x |-> NewVariable, y |-> vy] :
                        va \in {NewVariable, SeededVariable(DefaultInt)},
                        vy \in {NewVariable, SeededVariable(DefaultInt)}}
    /\ vectors \in [Vectors -> {NewVector(FALSE), NewVector(TRUE),
                                SeededVector(<<DefaultInt>>)}]
    /\ configs \in [Configs -> {NewConfig(FALSE), NewConfig(TRUE)}]
    /\ source \in TreeSources

\* Trees whose Variables all have defaults, with a vector of every kind in a
\* root of either kind, parsed from the sources over the elements of the
\* vector.
InitVector ==
    /\ variables = [n \in Variables |-> SeededVariable(DefaultInt)]
    /\ vectors \in [Vectors -> {NewVector(FALSE), NewVector(TRUE),
                                SeededVector(<<>>), SeededVector(<<DefaultInt>>)}]
    /\ configs \in {[root |-> NewConfig(o), g |-> NewConfig(FALSE)] : o \in BOOLEAN}
    /\ source \in VectorSources

NoRead == [elem |-> "root", how |-> "none", raised |-> FALSE, what |-> "",
           value |-> nullopt]

\* No call of VectorIface::Parse on a Vector of elements of type T.
NoProbe == [T |-> "int", optional_ |-> FALSE, value_ |-> nullopt, index |-> 0,
            throw_on_fail |-> FALSE, last_error |-> nullopt, at |-> "idle",
            raised |-> FALSE, what |-> "", parsed |-> FALSE]

\* Before the first pass.
\* The threads that call Config::Parse of the root.
Threads == {"first", "second"}

\* No thread has entered Config::Parse yet: no binding was ever built.
NoThread == [pc |-> "idle", throw_on_fail |-> FALSE, over |-> 0, range |-> <<>>,
             i |-> 0, config_parsed |-> FALSE, dangling |-> FALSE, raised |-> FALSE]
NoRace == [builds |-> 0, list |-> <<>>, live |-> {},
           thread |-> [t \in Threads |-> NoThread]]

NoPassYet ==
    /\ read = NoRead
    /\ race = NoRace
    /\ dest = NoDocument
    /\ last = NoPass
    /\ passes = 0

Init ==
    /\ formatter = RapidjsonName
    /\ probing = NoProbe
    /\ InitTree \/ InitVector
    /\ validators = {}
    /\ NoPassYet

\* config.Parse(formatter, "", source, throw_on_fail) on the root
Parse(throw_on_fail) ==
    /\ passes < MaxPasses
    /\ \E r \in {ConfigParse(Store, "root", RootPath, source, throw_on_fail)} :
           /\ variables' = r.st.variables
           /\ vectors' = r.st.vectors
           /\ configs' = r.st.configs
           /\ last' = [op |-> "Parse", elem |-> "root", throw_on_fail |-> throw_on_fail,
                       before |-> ConfigInitialized(Store, "root"),
                       raised |-> r.raised, what |-> r.what, parsed |-> r.parsed]
    /\ passes' = passes + 1
    /\ UNCHANGED <<source, dest, rest>>

\* config.Emit(formatter, "", &emit_dst, throw_on_fail) on the root, into an
\* empty destination
Emit(throw_on_fail) ==
    /\ passes < MaxPasses
    /\ \E r \in {ConfigEmit(Store, "root", RootPath, NoDocument, throw_on_fail)} :
           /\ configs' = r.st.configs
           /\ dest' = r.dest
           /\ last' = [op |-> "Emit", elem |-> "root", throw_on_fail |-> throw_on_fail,
                       before |-> ConfigInitialized(Store, "root"),
                       raised |-> r.raised, what |-> r.what, parsed |-> FALSE]
    /\ passes' = passes + 1
    /\ UNCHANGED <<variables, vectors, source, rest>>

\* VariableIface<int, F>(path, &variable).Parse(formatter, source, throw_on_fail)
\* on one Variable of the tree
ParseVariable(n, throw_on_fail) ==
    /\ passes < MaxPasses
    /\ \E r \in {VariableIfaceParse(Store, PathOf(n), n, source, throw_on_fail)} :
           /\ variables' = r.st.variables
           /\ last' = [op |-> "ParseVariable", elem |-> n, throw_on_fail |-> throw_on_fail,
                       before |-> VariableInitialized(variables[n]),
                       raised |-> r.raised, what |-> r.what, parsed |-> r.parsed]
    /\ passes' = passes + 1
    /\ UNCHANGED <<vectors, configs, source, dest, rest>>

\* The source loses all its values (the fixtures' Clear())
Clear ==
    /\ source # NoDocument
    /\ source' = NoDocument
    /\ UNCHANGED <<variables, vectors, configs, dest, last, passes, rest>>

Next ==
    \/ \E throw_on_fail \in BOOLEAN : Parse(throw_on_fail)
    \/ \E throw_on_fail \in BOOLEAN : Emit(throw_on_fail)
    \/ \E n \in Variables, throw_on_fail \in BOOLEAN : ParseVariable(n, throw_on_fail)
    \/ Clear

Spec == Init /\ [][Next]_vars

----------------------------------------------------------------------------
(* Trees with a validation hook.                                           *)

\* Sources for the trees with a hook: a rejected int, a value that is no int
\* or none for a and for the first element of v, a rejected int or none for
\* y, and an int for x.
HookSources ==
    {sa @@ sx @@ sy @@ sv :
        sa \in At(PathOf("a"), {JsonString} \cup {JsonInt(n) : n \in Rejected}),
        sx \in {PathOf("x") :> JsonInt(123)},
        sy \in At(PathOf("y"), {JsonInt(n) : n \in Rejected}),
        sv \in At(VectorElementPath(PathOf("v"), 0),
                  {JsonString} \cup {JsonInt(n) : n \in Rejected})}

\* Trees in which the class of one object overrides Validate().
InitHooks ==
    /\ formatter = RapidjsonName
    /\ probing = NoProbe
    /\ variables \in {[a |-> va, x |-> NewVariable, y |-> SeededVariable(DefaultInt)] :
                        va \in {NewVariable, SeededVariable(DefaultInt)}}
    /\ vectors \in [Vectors -> {NewVector(FALSE), NewVector(TRUE)}]
    /\ configs \in [Configs -> {NewConfig(FALSE), NewConfig(TRUE)}]
    /\ source \in HookSources
    /\ validators \in {{element} : element \in {"a", "v", "g", "root"}}
    /\ NoPassYet

\* VectorIface<int, F>(path, &vector).Parse(formatter, source, throw_on_fail)
\* on the Vector of the tree
ParseVector(n, throw_on_fail) ==
    /\ passes < MaxPasses
    /\ \E r \in {VectorIfaceParse(Store, PathOf(n), n, source, throw_on_fail)} :
           /\ vectors' = r.st.vectors
           /\ last' = [op |-> "ParseVector", elem |-> n, throw_on_fail |-> throw_on_fail,
                       before |-> VariableInitialized(vectors[n]),
                       raised |-> r.raised, what |-> r.what, parsed |-> r.parsed]
    /\ passes' = passes + 1
    /\ UNCHANGED <<variables, configs, source, dest, rest>>

NextHooks ==
    \/ Next
    \/ \E n \in Vectors, throw_on_fail \in BOOLEAN : ParseVector(n, throw_on_fail)

SpecHooks == InitHooks /\ [][NextHooks]_vars

----------------------------------------------------------------------------
(* Reads of the values of the objects of a tree.                           *)

\* The ways the value of a Variable is read, and those of a Vector.
Accessors(element) ==
    {"Get", "operator*", "operator->", "operator T&"}
        \cup (IF Kind(element) = "Variable" THEN {"operator+", "operator-"} ELSE {})

\* The object of the tree of a name.
Object(element) ==
    IF Kind(element) = "Variable" THEN variables[element] ELSE vectors[element]

\* var.Get(), *var, var.operator->(), (T&)var, var + 1 and var - 1
ReadBy(how, var) ==
    CASE how = "Get" -> VariableGet(var)
      [] how = "operator*" -> Dereference(var)
      [] how = "operator->" -> StructureDereference(var)
      [] how = "operator T&" -> Conversion(var)
      [] how = "operator+" -> Plus(var, 1)
      [] how = "operator-" -> Minus(var, 1)

\* The value of an object of the tree is read.
Read(element, how) ==
    /\ \E got \in {ReadBy(how, Object(element))} :
           read' = [elem |-> element, how |-> how, raised |-> got.raised,
                    what |-> got.what, value |-> got.value]
    /\ UNCHANGED <<variables, vectors, configs, source, dest, last, passes, validators,
                   formatter, probing, race>>

\* Trees with a mandatory and a pre-seeded Variable and a Vector of every
\* kind, parsed from a source with all values or with none.
InitRead ==
    /\ formatter = RapidjsonName
    /\ probing = NoProbe
    /\ variables = [a |-> NewVariable, x |-> NewVariable, y |-> SeededVariable(DefaultInt)]
    /\ vectors \in [Vectors -> {NewVector(FALSE), NewVector(TRUE),
                                SeededVector(<<DefaultInt>>)}]
    /\ configs \in {[c \in Configs |-> NewConfig(o)] : o \in BOOLEAN}
    /\ source \in {NoDocument,
                    (PathOf("a") :> JsonInt(123)) @@ (PathOf("x") :> JsonInt(100))
                        @@ (VectorElementPath(PathOf("v"), 0) :> JsonInt(123))}
    /\ validators = {}
    /\ NoPassYet

NextRead ==
    \/ Next
    \/ \E element \in Variables \cup Vectors :
           \E how \in Accessors(element) : Read(element, how)

SpecRead == InitRead /\ [][NextRead]_vars

----------------------------------------------------------------------------
(* A Vector parsed again after the source lost elements.                   *)

\* A Vector of every kind and the sources over its elements.
InitShrink ==
    /\ formatter = RapidjsonName
    /\ probing = NoProbe
    /\ variables = [n \in Variables |-> SeededVariable(DefaultInt)]
    /\ vectors \in [Vectors -> {NewVector(FALSE), NewVector(TRUE),
                                SeededVector(<<>>), SeededVector(<<DefaultInt>>)}]
    /\ configs = [c \in Configs |-> NewConfig(FALSE)]
    /\ source \in DocumentsOver({VectorElementPath(PathOf("v"), i) : i \in 0..(MaxLen - 1)})
    /\ validators = {}
    /\ NoPassYet

\* The caller removes from the source the element of the highest index.
Shrink ==
    /\ source # NoDocument
    /\ \E p \in DOMAIN source :
           /\ \A i \in 0..(MaxLen - 1) :
                  VectorElementPath(PathOf("v"), i) \in DOMAIN source
                      => \E j \in i..(MaxLen - 1) : p = VectorElementPath(PathOf("v"), j)
           /\ source' = [q \in DOMAIN source \ {p} |-> source[q]]
    /\ UNCHANGED <<variables, vectors, configs, dest, last, passes, rest>>

NextShrink ==
    \/ \E n \in Vectors, throw_on_fail \in BOOLEAN : ParseVector(n, throw_on_fail)
    \/ Shrink

SpecShrink == InitShrink /\ [][NextShrink]_vars

----------------------------------------------------------------------------
(* A Vector assigned by the program and emitted.                           *)

\* Vector<T>::operator=(std::vector<T>&&)
VectorAssign(vec, vector) == [vec EXCEPT !.value_ = Some(vector)]

\* The lists the program assigns.
AssignedLists == {<<>>, <<123>>, <<100, 123>>}

\* A Vector of every kind in a root of either kind, all Variables pre-seeded.
InitAssign ==
    /\ formatter = RapidjsonName
    /\ probing = NoProbe
    /\ variables = [n \in Variables |-> SeededVariable(DefaultInt)]
    /\ vectors \in [Vectors -> {NewVector(FALSE), NewVector(TRUE),
                                SeededVector(<<>>), SeededVector(<<DefaultInt>>)}]
    /\ configs \in {[root |-> NewConfig(o), g |-> NewConfig(FALSE)] : o \in BOOLEAN}
    /\ source = NoDocument
    /\ validators = {}
    /\ NoPassYet

\* config.v = std::vector<int>{...}
Assign(n, vector) ==
    /\ vectors' = [vectors EXCEPT ![n] = VectorAssign(vectors[n], vector)]
    /\ UNCHANGED <<variables, configs, source, dest, last, passes, rest>>

NextAssign ==
    \/ \E n \in Vectors, vector \in AssignedLists : Assign(n, vector)
    \/ \E throw_on_fail \in BOOLEAN : Emit(throw_on_fail)

SpecAssign == InitAssign /\ [][NextAssign]_vars

----------------------------------------------------------------------------
(* One tree parsed and emitted with both formats.                          *)

\* What the environment may hold under a name: the print of an int, or a
\* string that is not one.
EnvStrings == {"123", "0123"}

\* The environments and the documents the passes of the two formats read:
\* a value or none for a, x and the first element of v.
EnvSources ==
    {sa @@ sx @@ sv :
        sa \in At(EnvPathOf("a"), {"100"}),
        sx \in At(EnvPathOf("x"), EnvStrings),
        sv \in At(EnvPathOf("v") \o "_0", {"100"})}
RapidjsonSources ==
    {sa @@ sx @@ sv :
        sa \in At(RapidjsonPathOf("a"), {JsonInt(123)}),
        sx \in At(RapidjsonPathOf("x"), {JsonInt(123), JsonString}),
        sv \in At(RapidjsonPathOf("v") \o "/0", {JsonInt(123)})}
SourcesOf(F) == IF F = EnvName THEN EnvSources ELSE RapidjsonSources

\* A tree of Config<EnvFormat, RapidjsonFormat<>> with a formatter and a
\* source of either format.
InitFormats ==
    /\ formatter \in Formats
    /\ probing = NoProbe
    /\ variables = [a |-> NewVariable, x |-> NewVariable, y |-> SeededVariable(DefaultInt)]
    /\ vectors \in [Vectors -> {NewVector(FALSE), NewVector(TRUE)}]
    /\ configs \in {[root |-> NewConfig(o), g |-> NewConfig(FALSE)] : o \in BOOLEAN}
    /\ source \in SourcesOf(formatter)
    /\ validators = {}
    /\ NoPassYet

\* The caller takes the formatter of the other format and a source of it.
SwitchFormat(F) ==
    /\ F # formatter
    /\ formatter' = F
    /\ source' \in SourcesOf(F)
    /\ dest' = NoDocument
    /\ UNCHANGED <<variables, vectors, configs, last, passes, validators, read, probing,
                   race>>

NextFormats ==
    \/ Next
    \/ \E F \in Formats : SwitchFormat(F)

SpecFormats == InitFormats /\ [][NextFormats]_vars

----------------------------------------------------------------------------
(* VectorIface<T, F>::Parse, one iteration of its loop at a time, on a     *)
(* Vector whose elements are ints or Configs.                              *)

\* Iterations of the loop that are followed.
ProbeCap == MaxLen + 2

\* The element types: int, a Config with one mandatory Variable (VarConfig)
\* and a Config with one pre-seeded Variable (OptVarConfig).
ElementTypes == {"int", "VarConfig", "OptVarConfig"}

\* T element: the objects of a default-constructed Config element
FreshElement(T) ==
    [variables |-> ("x" :> NewVariable) @@ ("y" :> SeededVariable(DefaultInt)),
     vectors |-> [n \in {} |-> NewVector(FALSE)],
     configs |-> (T :> NewConfig(FALSE))]

\* elem_iface_type iface(path, &element); iface.Parse(parser, source, true):
\* [raised, what, value]
ElementParse(T, path, src) ==
    IF T = "int"
    THEN ValueIfaceParse(path, src, TRUE)
    ELSE The({[raised |-> r.raised, what |-> r.what, value |-> Some(r.st.variables)] :
              r \in {ConfigParse(FreshElement(T), T, path, src, TRUE)}})

\* The path at which the source holds the value of the element at index.
ElementKey(T, index) ==
    VectorElementPath(PathOf("v"), index)
        \o (CASE T = "int" -> "" [] T = "VarConfig" -> "/x" [] OTHER -> "/y")

\* A Vector of either kind with elements of each type, and the sources over
\* the values of its elements.
InitProbe ==
    /\ formatter = RapidjsonName
    /\ probing \in {[NoProbe EXCEPT !.T = T, !.optional_ = o] :
                      T \in ElementTypes, o \in BOOLEAN}
    /\ variables = [n \in Variables |-> SeededVariable(DefaultInt)]
    /\ vectors = [n \in Vectors |-> NewVector(TRUE)]
    /\ configs = [c \in Configs |-> NewConfig(FALSE)]
    /\ source \in DocumentsOver({ElementKey(probing.T, i) : i \in 0..(MaxLen - 1)})
    /\ validators = {}
    /\ NoPassYet

\* VectorIface::Parse is entered: index = 0, no last_error
VectorParseEnter(throw_on_fail) ==
    /\ probing.at = "idle"
    /\ probing' = [probing EXCEPT !.at = "loop", !.index = 0, !.last_error = nullopt,
                                  !.throw_on_fail = throw_on_fail]
    /\ UNCHANGED <<variables, vectors, configs, source, dest, last, passes, validators,
                   read, formatter, race>>

\* One iteration of the while (true) loop; the iteration that breaks runs
\* the rest of the method.
VectorParseIterate ==
    /\ probing.at = "loop"
    /\ probing.index < ProbeCap
    /\ \E r \in {ElementParse(probing.T, VectorElementPath(PathOf("v"), probing.index), source)} :
           probing' =
             IF r.raised
             THEN IF VectorNotSetThrows(probing, probing.throw_on_fail)
                  THEN [probing EXCEPT !.at = "done", !.last_error = Some(r.what),
                                     !.raised = TRUE,
                                     !.what = VectorNotSetError(PathOf("v"), Some(r.what))]
                  ELSE IF Validate(Store, "v") # nullopt /\ probing.throw_on_fail
                  THEN [probing EXCEPT !.at = "done", !.last_error = Some(r.what),
                                     !.raised = TRUE, !.what = Validate(Store, "v")[1]]
                  ELSE [probing EXCEPT !.at = "done", !.last_error = Some(r.what),
                                     !.parsed = probing.index > 0]
             ELSE [probing EXCEPT
                     !.value_ = Some(Append(IF VectorStartsOver(probing, probing.index)
                                            THEN <<>> ELSE probing.value_[1],
                                            r.value[1])),
                     !.index = probing.index + 1]
    /\ UNCHANGED <<variables, vectors, configs, source, dest, last, passes, validators,
                   read, formatter, race>>

NextProbe ==
    \/ \E throw_on_fail \in BOOLEAN : VectorParseEnter(throw_on_fail)
    \/ VectorParseIterate

SpecProbe == InitProbe /\ [][NextProbe]_vars

----------------------------------------------------------------------------
(* Config::Parse of one root called from two threads, a step of one thread *)
(* at a time.  A binding is the object a std::unique_ptr of the root's     *)
(* Interfaces<F>() owns; it is named <<b, k>>: the k-th binding of the     *)
(* b-th list built.  The bindings of the nested Config are not followed.   *)
(* A pass re-entered from a hook is the interleaving in which the second   *)
(* pass runs from its constructor to its return inside one iteration of    *)
(* the first.                                                              *)

MaxBuilds == 3

\* Mutant: the bindings of the discarded list stay alive.
ResetBindingsLeaked(live, list) == live

\* Config::Reset, interfaces_ = {}: every std::unique_ptr of the list is
\* destroyed, and its binding with it.
ResetBindings(live, list) == live \ {list[k] : k \in DOMAIN list}

\* Config::Register, emplace_back(std::make_unique<...>): the bindings of
\* the b-th list, one per registered child.
BuiltBindings(b, n) == [k \in 1..n |-> <<b, k>>]

InitRace ==
    /\ formatter = RapidjsonName
    /\ probing = NoProbe
    /\ variables \in {[a |-> va, x |-> NewVariable, y |-> SeededVariable(DefaultInt)] :
                        va \in {NewVariable, SeededVariable(DefaultInt)}}
    /\ vectors = [n \in Vectors |-> NewVector(TRUE)]
    /\ configs \in {[root |-> NewConfig(o), g |-> NewConfig(TRUE)] : o \in BOOLEAN}
    /\ source \in TreeSources
    /\ validators = {}
    /\ NoPassYet

\* ConfigIface<Format>::ConfigIface, called by Config::Parse: Reset(),
\* SetFormat<Format>(), Init(Path()), cfg_interfaces_ = &Interfaces<F>()
Construct(t, throw_on_fail) ==
    /\ race.thread[t].pc \in {"idle", "done"}
    /\ race.builds < MaxBuilds
    /\ configs' = ConfigIfaceCtor(configs, FormatName, RootPath, "root")
    /\ \E list \in {BuiltBindings(race.builds + 1,
                                  Len(configs'["root"].interfaces_[FormatName]))} :
           race' = [race EXCEPT
                       !.builds = race.builds + 1,
                       !.list = list,
                       !.live = ResetBindings(race.live, race.list)
                                    \cup {list[k] : k \in DOMAIN list},
                       !.thread[t] = [NoThread EXCEPT !.pc = "built",
                                                      !.throw_on_fail = throw_on_fail]]
    /\ UNCHANGED <<variables, vectors, source, dest, last, passes, validators, read,
                   formatter, probing>>

\* ConfigIface::Parse, for (auto& iface : *cfg_interfaces_): begin() and
\* end() of the list the Config holds when the loop is entered
Begin(t) ==
    /\ race.thread[t].pc = "built"
    /\ race' = [race EXCEPT !.thread[t].pc = "loop",
                            !.thread[t].over = race.builds,
                            !.thread[t].range = race.list,
                            !.thread[t].i = 1]
    /\ UNCHANGED <<variables, vectors, configs, source, dest, last, passes, validators,
                   read, formatter, probing>>

\* ConfigIface::Parse, the body of the loop run with the binding iface, and
\* the increment of the iterator
Body(t, iface) ==
    \E r \in {IfaceParse(Store, iface, source, race.thread[t].throw_on_fail)} :
        /\ variables' = r.st.variables
        /\ vectors' = r.st.vectors
        /\ configs' = r.st.configs
        /\ IF r.raised /\ ConfigRethrows(configs["root"], race.thread[t].throw_on_fail)
           THEN race' = [race EXCEPT !.thread[t].pc = "done",
                                     !.thread[t].raised = TRUE,
                                     !.thread[t].dangling =
                                         @ \/ race.thread[t].range[race.thread[t].i] \notin race.live]
           ELSE race' = [race EXCEPT !.thread[t].i = @ + 1,
                                     !.thread[t].config_parsed =
                                         ConfigParsed(@, ~r.raised /\ r.parsed),
                                     !.thread[t].dangling =
                                         @ \/ race.thread[t].range[race.thread[t].i] \notin race.live]

\* ConfigIface::Parse, one iteration of the loop, or the end of the loop and
\* cfg_validate_().  The binding under the iterator is the one of the list
\* the Config holds if it still exists; if it was destroyed the behaviour is
\* undefined: the thread stops, or goes on as if the binding still existed.
Iterate(t) ==
    /\ race.thread[t].pc = "loop"
    /\ IF race.thread[t].i > Len(race.thread[t].range)
       THEN /\ race' = [race EXCEPT
                           !.thread[t].pc = "done",
                           !.thread[t].raised = Validate(Store, "root") # nullopt
                                                   /\ race.thread[t].throw_on_fail]
            /\ UNCHANGED <<variables, vectors, configs>>
       ELSE IF race.thread[t].range[race.thread[t].i] \in race.live
       THEN Body(t, configs["root"].interfaces_[FormatName][race.thread[t].i])
       ELSE \/ /\ race' = [race EXCEPT !.thread[t].pc = "crashed",
                                       !.thread[t].dangling = TRUE]
               /\ UNCHANGED <<variables, vectors, configs>>
            \/ Body(t, Decl("root", RootPath)[race.thread[t].i])
    /\ UNCHANGED <<source, dest, last, passes, validators, read, formatter, probing>>

NextRace ==
    \/ \E t \in Threads, throw_on_fail \in BOOLEAN : Construct(t, throw_on_fail)
    \/ \E t \in Threads : Begin(t)
    \/ \E t \in Threads : Iterate(t)

SpecRace == InitRace /\ [][NextRace]_vars

----------------------------------------------------------------------------
(* Vocabulary of the properties.                                           *)

StoreNext == [variables |-> variables', vectors |-> vectors', configs |-> configs']

\* A step that runs a pass, and the kind of pass it runs.
PassStep(op) == passes' = passes + 1 /\ last'.op = op

\* The children a Config declares, as a set.
Children(c) == {Decl(c, PathOf(c))[i].elem : i \in 1..Len(Decl(c, PathOf(c)))}

\* Whether the current source yields an int at the path of a Variable.
Yields(n) == FormatParse(source, PathOf(n)) # nullopt

RECURSIVE MandatoryComplete(_)
\* Every mandatory node below c, reached through non-optional Configs only,
\* holds a value.
MandatoryComplete(c) ==
    \A child \in Children(c) :
        IF Kind(child) = "Config"
        THEN configs[child].optional_ \/ MandatoryComplete(child)
        ELSE IF Kind(child) = "Vector"
        THEN vectors[child].optional_ \/ vectors[child].value_ # nullopt
        ELSE variables[child].optional_ \/ variables[child].value_ # nullopt

----------------------------------------------------------------------------
(* Properties.                                                             *)

\* C1 (as claimed): a strict Parse of the root, optional or not, that returns
\* without raising leaves the root Initialized() and every mandatory node
\* reachable through non-optional Configs initialized.
C1_StrictParseCompleteAnyRoot ==
    (last.op = "Parse" /\ last.throw_on_fail /\ ~last.raised)
        => (ConfigInitialized(Store, "root") /\ MandatoryComplete("root"))

\* C1 (amended): a strict Parse of a root that is not optional either raises or
\* leaves the root Initialized() and every mandatory node reachable through
\* non-optional Configs initialized.
C1_StrictParseComplete ==
    (last.op = "Parse" /\ last.throw_on_fail /\ ~last.raised
        /\ ~configs["root"].optional_)
        => (ConfigInitialized(Store, "root") /\ MandatoryComplete("root"))

\* C1 witness: a strict Parse of a non-optional root with a mandatory a, a
\* mandatory g and a mandatory v returned, all of them set.
C1_Witness ==
    /\ last.op = "Parse" /\ last.throw_on_fail /\ ~last.raised
    /\ ~configs["root"].optional_ /\ ~configs["g"].optional_
    /\ ~variables["a"].optional_ /\ ~vectors["v"].optional_
    /\ ConfigInitialized(Store, "root")

\* C2: a lenient Parse of the root never raises; a mandatory child that is
\* left unset shows in Initialized() of the root being false.
C2_LenientParseNeverRaises ==
    (last.op = "Parse" /\ ~last.throw_on_fail)
        => /\ ~last.raised
           /\ (\E child \in Children("root") :
                   ~ElemOptional(Store, child) /\ ~ElemInitialized(Store, child))
                => ~ConfigInitialized(Store, "root")

\* C2 witness: a lenient Parse returned with the mandatory a, the mandatory x
\* of a mandatory g and the mandatory v all unset.
C2_Witness ==
    /\ last.op = "Parse" /\ ~last.throw_on_fail /\ ~last.raised
    /\ ~configs["g"].optional_
    /\ ~variables["a"].optional_ /\ variables["a"].value_ = nullopt
    /\ variables["x"].value_ = nullopt
    /\ ~vectors["v"].optional_ /\ vectors["v"].value_ = nullopt
    /\ ~ConfigInitialized(Store, "root")

\* C3: after a Parse or Emit pass, each Config is Initialized() exactly when
\* every child it declares is Optional() or Initialized().
C3_GroupCompleteness ==
    (last.op \in {"Parse", "Emit"})
        => \A c \in Configs :
               ConfigInitialized(Store, c)
                   <=> \A child \in Children(c) :
                           ElemOptional(Store, child) \/ ElemInitialized(Store, child)

\* C3 witness: after a Parse the mandatory g is not Initialized() and so the
\* root is not either, although its other children a and v are.
C3_Witness ==
    /\ last.op = "Parse"
    /\ ~configs["g"].optional_ /\ ~ConfigInitialized(Store, "g")
    /\ ElemInitialized(Store, "a") /\ ElemInitialized(Store, "v")
    /\ ~ConfigInitialized(Store, "root")

\* C4 (as claimed): for every non-optional Variable, whatever passes ran
\* before, a Parse from a source with nothing at its path raises when strict,
\* and when lenient returns false and leaves the Variable not Initialized().
C4_MissingMandatoryAnyState ==
    [][\A n \in Variables :
        (PassStep("ParseVariable") /\ last'.elem = n
            /\ ~variables[n].optional_ /\ ~Yields(n))
            => IF last'.throw_on_fail
               THEN last'.raised
               ELSE ~last'.raised /\ ~last'.parsed
                        /\ ~VariableInitialized(variables'[n])]_vars

\* C4 (amended): for every non-optional Variable that holds no value, a Parse
\* from a source with nothing at its path raises when strict, and when lenient
\* returns false and leaves the Variable not Initialized(); for one that an
\* earlier pass set, it does not raise, returns false and keeps the value.
C4_MissingMandatory ==
    [][\A n \in Variables :
        (PassStep("ParseVariable") /\ last'.elem = n
            /\ ~variables[n].optional_ /\ ~Yields(n))
            => IF VariableInitialized(variables[n])
               THEN ~last'.raised /\ ~last'.parsed /\ variables'[n] = variables[n]
               ELSE IF last'.throw_on_fail
               THEN last'.raised /\ ~VariableInitialized(variables'[n])
               ELSE ~last'.raised /\ ~last'.parsed
                        /\ ~VariableInitialized(variables'[n])]_vars

\* C4 witness: a strict Parse of the mandatory, unset a from a source with
\* nothing at its path has raised.
C4_Witness ==
    /\ last.op = "ParseVariable" /\ last.elem = "a" /\ last.throw_on_fail
    /\ ~last.before /\ last.raised
    /\ ~variables["a"].optional_ /\ ~Yields("a")
    /\ last.what = NotValid(PathOf("a"), "variable is not set")

\* C5: for every Variable constructed with a default, a Parse, strict or
\* lenient, from a source with nothing at its path does not raise, returns
\* false and leaves the Variable Initialized() with the value it held: the
\* default, unless an earlier pass read another value.  A Parse of the root
\* leaves it alone in the same way.
C5_DefaultKept ==
    [][\A n \in Variables :
        (variables[n].optional_ /\ ~Yields(n))
            => /\ (PassStep("ParseVariable") /\ last'.elem = n)
                    => /\ ~last'.raised /\ ~last'.parsed
                       /\ VariableInitialized(variables'[n])
                       /\ variables'[n] = variables[n]
                       /\ (variables[n] = SeededVariable(DefaultInt)
                              => variables'[n].value_ = Some(DefaultInt))
               /\ PassStep("Parse")
                    => /\ variables'[n] = variables[n]
                       /\ last'.raised
                             => last'.what # NotValid(PathOf(n), "variable is not set")]_vars

\* C5 witness: a strict Parse of a, constructed with the default, from a
\* source with nothing at its path has returned false and a holds the default.
C5_Witness ==
    /\ last.op = "ParseVariable" /\ last.elem = "a" /\ last.throw_on_fail
    /\ ~last.raised /\ ~last.parsed /\ ~Yields("a")
    /\ variables["a"] = SeededVariable(DefaultInt)

\* The path of element i of v, and whether the current source yields an int
\* there.
ElementPath(i) == VectorElementPath(PathOf("v"), i)
ElementYields(i) == FormatParse(source, ElementPath(i)) # nullopt

\* The smallest index at which the source has no element or one that is not
\* an int, and the ints the source holds before it.
FirstGap ==
    CHOOSE k \in 0..MaxLen :
        ~ElementYields(k) /\ \A j \in 0..(k - 1) : ElementYields(j)
Prefix(k) == [i \in 1..k |-> source[ElementPath(i - 1)].n]

\* A Parse of the root, recorded in l, got as far as v: it returned, or the
\* error it raised is that of v.
VectorReached(l) ==
    ~l.raised \/ l.what = NotValid(ElementPath(0), "variable is not set")

\* C6: a Parse that reaches v leaves it holding exactly the ints the source
\* has at indices 0..k-1, in index order, k the smallest index that is absent
\* or not an int: nothing behind a gap is read.  When k = 0 nothing is parsed
\* and v is left as it was.
C6_NoGap ==
    [][(PassStep("Parse") /\ VectorReached(last'))
        => IF FirstGap = 0
           THEN vectors'["v"] = vectors["v"]
           ELSE vectors'["v"].value_ = Some(Prefix(FirstGap))]_vars

\* C6 witness: the source has elements 0 and 2 and no element 1, and after a
\* Parse v holds the one element of index 0.
C6_Witness ==
    /\ last.op = "Parse" /\ ~last.raised
    /\ ElementYields(0) /\ ~ElementYields(1) /\ ElementYields(2)
    /\ vectors["v"].value_ = Some(<<source[ElementPath(0)].n>>)

\* The trees of the shape of the current one, as constructed.
FreshStores ==
    {[variables |-> [n \in Variables |->
                        IF variables[n].optional_
                        THEN SeededVariable(DefaultInt) ELSE NewVariable],
      vectors |-> [n \in Vectors |-> fv],
      configs |-> [c \in Configs |-> NewConfig(configs[c].optional_)]] :
        fv \in IF vectors["v"].optional_
               THEN {NewVector(TRUE), SeededVector(<<>>), SeededVector(<<DefaultInt>>)}
               ELSE {NewVector(FALSE)}}

\* C7: when v holds the n >= 1 ints a Parse read from a source with ints at
\* indices 0..n-1 and none at n, an Emit that returns writes exactly n element
\* entries, at the element paths 0..n-1 and with those ints, and a Parse of
\* what Emit wrote into a fresh tree of the same shape gives an equal v.
C7_RoundTrip ==
    (last.op = "Emit" /\ ~last.raised /\ FirstGap >= 1
        /\ vectors["v"].value_ = Some(Prefix(FirstGap)))
        => /\ DOMAIN dest \ VariablePaths = {ElementPath(i) : i \in 0..(FirstGap - 1)}
           /\ \A i \in 0..(FirstGap - 1) :
                  dest[ElementPath(i)] = JsonInt(vectors["v"].value_[1][i + 1])
           /\ \A fresh \in FreshStores :
                  ConfigParse(fresh, "root", RootPath, dest, FALSE).st.vectors["v"]
                      = vectors["v"]

\* C7 witness: v holds the two ints parsed from a source with elements 0 and 1
\* only, and Emit wrote two element entries.
C7_Witness ==
    /\ last.op = "Emit" /\ ~last.raised /\ FirstGap = 2
    /\ vectors["v"].value_ = Some(Prefix(2))
    /\ ElementPath(1) \in DOMAIN dest

RECURSIVE Leaves(_)
\* The Variables and Vectors in the subtree of a Config.
Leaves(c) ==
    UNION {IF Kind(child) = "Config" THEN Leaves(child) ELSE {child} :
               child \in Children(c)}

\* The paths at which a Variable or the elements of a Vector are written.
KeysOf(leaf) ==
    IF Kind(leaf) = "Variable"
    THEN {PathOf(leaf)}
    ELSE {VectorElementPath(PathOf(leaf), i) : i \in 0..MaxLen}

\* The paths of the subtree of a Config.
Subtree(c) == UNION {KeysOf(leaf) : leaf \in Leaves(c)}

C9_StrictEmitRaisesIffUninitialized ==
    [][(PassStep("Emit") /\ last'.throw_on_fail /\ ~configs["root"].optional_)
        => /\ last'.raised <=> ~ConfigInitialized(StoreNext, "root")
           /\ (last.op = "Parse" /\ last.throw_on_fail /\ ~last.raised)
                  => ~last'.raised]_vars

\* C9 witness: after a lenient Parse left the mandatory a unset, a strict Emit
\* of the non-optional root has raised.
C9_Witness ==
    /\ last.op = "Emit" /\ last.throw_on_fail /\ last.raised
    /\ passes = 2 /\ last.before = FALSE
    /\ ~configs["root"].optional_
    /\ ~variables["a"].optional_ /\ ~VariableInitialized(variables["a"])
    /\ ~ConfigInitialized(Store, "root")

\* The int held at a path of the tree.
ValueAt(path) ==
    IF path \in VariablePaths
    THEN variables[CHOOSE n \in Variables : PathOf(n) = path].value_[1]
    ELSE vectors["v"].value_[1][(CHOOSE i \in 0..MaxLen : ElementPath(i) = path) + 1]

\* The paths of the Variables that hold a value and of the elements of the
\* Vector when it holds a list.
InitializedKeys ==
    {PathOf(n) : n \in {m \in Variables : VariableInitialized(variables[m])}}
        \cup (IF VariableInitialized(vectors["v"])
              THEN {ElementPath(i) : i \in 0..(Len(vectors["v"].value_[1]) - 1)}
              ELSE {})

\* C10: a lenient Emit of the root, Initialized() or not, never raises and
\* writes into the empty destination exactly the paths of the Variables that
\* hold a value and of the elements of an initialized Vector, each with its
\* current value.
C10_LenientEmitExact ==
    (last.op = "Emit" /\ ~last.throw_on_fail)
        => /\ ~last.raised
           /\ dest = [path \in InitializedKeys |-> JsonInt(ValueAt(path))]

\* C10 witness: a lenient Emit of a root that is not Initialized() wrote the
\* parsed a and the element of v and nothing for the unset x.
C10_Witness ==
    /\ last.op = "Emit" /\ ~last.throw_on_fail /\ ~last.raised
    /\ ~ConfigInitialized(Store, "root") /\ ~VariableInitialized(variables["x"])
    /\ PathOf("a") \in DOMAIN dest /\ ElementPath(0) \in DOMAIN dest
    /\ dest[PathOf("a")] = JsonInt(123)
    /\ PathOf("x") \notin DOMAIN dest

\* The source has a value at the path of a Variable that is no int.
Malformed(n) == PathOf(n) \in DOMAIN source /\ ~Yields(n)

\* C11 (as claimed): a strict Parse of an optional Variable raises exactly
\* when the source has a malformed value at its path or its validation hook
\* fails on the value parsed.
C11_OptionalRaisesOnMalformed ==
    [][\A n \in Variables :
        (PassStep("ParseVariable") /\ last'.elem = n /\ last'.throw_on_fail
            /\ variables[n].optional_)
            => (last'.raised
                   <=> \/ Malformed(n)
                       \/ /\ Yields(n) /\ n \in validators
                          /\ source[PathOf(n)].n \in Rejected)]_vars

\* C11 (amended): an optional field never raises for an absent value nor for
\* a malformed one.  A strict Parse of an optional Variable raises exactly
\* when its validation hook fails on the value parsed, one of an optional
\* Vector exactly when its hook fails on the list it holds after the pass,
\* and one of an optional root exactly when the hook of the root fails.
C11_OptionalRaisesOnHookOnly ==
    [][/\ \A n \in Variables :
            (PassStep("ParseVariable") /\ last'.elem = n /\ last'.throw_on_fail
                /\ variables[n].optional_)
                => (last'.raised
                       <=> /\ Yields(n) /\ n \in validators
                           /\ source[PathOf(n)].n \in Rejected)
       /\ \A n \in Vectors :
            (PassStep("ParseVector") /\ last'.elem = n /\ last'.throw_on_fail
                /\ vectors[n].optional_)
                => (last'.raised
                       <=> /\ n \in validators /\ vectors'[n].value_ # nullopt
                           /\ \E i \in DOMAIN vectors'[n].value_[1] :
                                  vectors'[n].value_[1][i] \in Rejected)
       /\ (PassStep("Parse") /\ last'.throw_on_fail /\ configs["root"].optional_)
                => (last'.raised
                       <=> /\ "root" \in validators
                           /\ variables'["a"].value_ # nullopt
                           /\ variables'["a"].value_[1] \in Rejected)]_vars

\* C11 witness: a strict Parse of the optional a, whose class overrides
\* Validate(), has read a rejected int and raised.
C11_Witness ==
    /\ last.op = "ParseVariable" /\ last.elem = "a" /\ last.throw_on_fail
    /\ variables["a"].optional_ /\ "a" \in validators
    /\ last.raised /\ last.what = "invalid a"
    /\ variables["a"].value_[1] \in Rejected

\* C12: before any Parse or Emit has run, a root that declares a mandatory
\* child holding no value is not Initialized().
C12_FreshGroupNotInitialized ==
    (passes = 0 /\ \E child \in Children("root") :
                       ~ElemOptional(Store, child) /\ Kind(child) # "Config"
                           /\ ~ElemInitialized(Store, child))
        => ~ConfigInitialized(Store, "root")

\* C13: a read of the value of a Variable or Vector by Get(), operator*,
\* operator->, the conversion to T, operator+ or operator- throws
\* uconfig::Error and yields no value when the object is not Initialized(),
\* and otherwise yields the stored value (plus or minus the operand for the
\* arithmetic operators).
C13_ReadChecked ==
    [][\A element \in Variables \cup Vectors :
        (read' # read /\ read'.elem = element)
            => IF ~VariableInitialized(Object(element))
               THEN read'.raised /\ read'.value = nullopt
               ELSE /\ ~read'.raised
                    /\ read'.value =
                         Some(CASE read'.how = "operator+" -> Object(element).value_[1] + 1
                                [] read'.how = "operator-" -> Object(element).value_[1] - 1
                                [] OTHER -> Object(element).value_[1])]_vars

\* C13 witness: operator+ on the unset a has thrown.
C13_Witness ==
    /\ read.elem = "a" /\ read.how = "operator+" /\ read.raised
    /\ read.what = "failed to get variable value: it is not set"
    /\ ~VariableInitialized(variables["a"])

RECURSIVE FieldsFrom(_, _)
\* The Variables and Vectors below a Config in declaration order, from the
\* i-th child of the Config on.
FieldsFrom(c, i) ==
    IF i > Len(Decl(c, ""))
    THEN <<>>
    ELSE (IF Decl(c, "")[i].format # FormatName
          THEN <<>>
          ELSE IF Kind(Decl(c, "")[i].elem) = "Config"
          THEN FieldsFrom(Decl(c, "")[i].elem, 1)
          ELSE <<Decl(c, "")[i].elem>>) \o FieldsFrom(c, i + 1)
Fields == FieldsFrom("root", 1)

\* A field offends a strict Parse of the root when it is reached through
\* Configs that are not optional, holds no value and gets none from the
\* source: a Variable with no int at its path, a Vector that is not optional
\* with no int at its first index.
Offends(field) ==
    /\ \A c \in Configs \ {"root"} : field \in Children(c) => ~configs[c].optional_
    /\ IF Kind(field) = "Variable"
       THEN variables[field].value_ = nullopt /\ ~Yields(field)
       ELSE /\ vectors[field].value_ = nullopt /\ ~vectors[field].optional_
            /\ FormatParse(source, VectorElementPath(PathOf(field), 0)) = nullopt

\* The position in Fields of the first field that offends, 0 if none does.
FirstOffender ==
    IF \E i \in DOMAIN Fields : Offends(Fields[i])
    THEN CHOOSE i \in DOMAIN Fields :
             Offends(Fields[i]) /\ \A j \in 1..(i - 1) : ~Offends(Fields[j])
    ELSE 0

\* C14 (as claimed): when a strict Parse of the root raises, some mandatory
\* field offends and the message is a "not set" message with the own path of
\* the first field that does, /v for the Vector.
C14_ErrorNamesOwnPath ==
    [][(PassStep("Parse") /\ last'.throw_on_fail /\ last'.raised)
        => /\ FirstOffender # 0
           /\ last'.what \in {NotValid(PathOf(Fields[FirstOffender]), why) :
                                why \in {"variable is not set", "vector is not set"}}]_vars

\* C14 (amended): when a strict Parse of the root raises, some mandatory field
\* offends and the message names the own path of the first field that does
\* if it is a Variable, and the path of its first element, /v/0, if it is a
\* Vector.
C14_ErrorNamesFirstOffender ==
    [][(PassStep("Parse") /\ last'.throw_on_fail /\ last'.raised)
        => /\ FirstOffender # 0
           /\ last'.what =
                NotValid(IF Kind(Fields[FirstOffender]) = "Vector"
                         THEN VectorElementPath(PathOf(Fields[FirstOffender]), 0)
                         ELSE PathOf(Fields[FirstOffender]),
                         "variable is not set")]_vars

\* C14 witness: a strict Parse raised on the missing mandatory v, after a, x
\* and y were set, with the path of the first element of v in the message.
C14_Witness ==
    /\ last.op = "Parse" /\ last.throw_on_fail /\ last.raised
    /\ last.what = "[JSON] config '/v/0' is not valid: variable is not set"
    /\ ~configs["g"].optional_
    /\ \A n \in Variables : variables[n].value_ # nullopt
    /\ vectors["v"].value_ = nullopt /\ ~vectors["v"].optional_

\* The interfaces of the root as a Parse builds them, and what the i-th of
\* them reports when it parses the current source on its own.
RootBuilt == [Store EXCEPT !.configs = ConfigIfaceCtor(configs, FormatName, RootPath, "root")]
ChildReport(i, throw_on_fail) ==
    IfaceParse(RootBuilt, RootBuilt.configs["root"].interfaces_[FormatName][i], source, throw_on_fail)

\* C15: a Parse of the root that returns reports parsed exactly when one of
\* its children returned parsed in that pass; it reports false when the
\* source holds no value, and true when lenient and the source holds an int
\* for the pre-seeded y while the mandatory x is missing.
C15_ParsedIffSomeChild ==
    [][(PassStep("Parse") /\ ~last'.raised)
        => /\ last'.parsed
                <=> \E i \in DOMAIN RootBuilt.configs["root"].interfaces_[FormatName] :
                        /\ ~ChildReport(i, last'.throw_on_fail).raised
                        /\ ChildReport(i, last'.throw_on_fail).parsed
           /\ source = NoDocument => ~last'.parsed
           /\ (~last'.throw_on_fail /\ Yields("y")) => last'.parsed]_vars

\* C15 witness: a lenient Parse returned parsed from a source with an int for
\* the pre-seeded y only, the mandatory a, x and v left unset.
C15_Witness ==
    /\ last.op = "Parse" /\ ~last.throw_on_fail /\ ~last.raised /\ last.parsed
    /\ DOMAIN source = {PathOf("y")} /\ Yields("y")
    /\ variables["y"].optional_
    /\ variables["a"].value_ = nullopt /\ variables["x"].value_ = nullopt
    /\ vectors["v"].value_ = nullopt /\ ~vectors["v"].optional_

RECURSIVE RegisteredFor(_, _, _)
\* The registrations of a declaration made for format F, from the i-th on,
\* in order, as [path, elem].
RegisteredFor(F, decl, i) ==
    IF i > Len(decl) THEN <<>>
    ELSE (IF decl[i].format = F
          THEN <<[path |-> decl[i].path, elem |-> decl[i].elem]>>
          ELSE <<>>) \o RegisteredFor(F, decl, i + 1)

\* C16: after a Parse or Emit of the root with the formatter of format F,
\* every Config of the tree accepts registrations for F only, holds as
\* interfaces of F the children it registers for F, at their paths for F and
\* in registration order, and holds no interface of the other format; a
\* lenient Parse stores in each Variable the int the source has at its path
\* for F and leaves the others as they were, and an Emit writes at paths for
\* F only.
C16_OnlyFormatOfPass ==
    [][(PassStep("Parse") \/ PassStep("Emit"))
        => /\ \A c \in Configs :
                /\ configs'[c].register_formats_ = {formatter}
                /\ configs'[c].interfaces_[formatter]
                       = RegisteredFor(formatter, Decl(c, PathOf(c)), 1)
                /\ \A G \in Formats \ {formatter} : configs'[c].interfaces_[G] = <<>>
           /\ (PassStep("Parse") /\ ~last'.throw_on_fail)
                => \A n \in Variables :
                       variables'[n].value_ =
                           IF Yields(n) THEN FormatParse(source, PathOf(n))
                           ELSE variables[n].value_
           /\ PassStep("Emit") => DOMAIN dest' \subseteq Subtree("root")]_vars

\* C16 witness: after a Parse with the Rapidjson formatter that set a from
\* /a, a Parse with the Env formatter has set x from _G_X, in an environment
\* that has no _A.
C16_Witness ==
    /\ formatter = EnvName /\ last.op = "Parse" /\ passes = 2
    /\ DOMAIN source = {"_G_X"}
    /\ variables["a"].value_ = Some(123)
    /\ variables["x"].value_ = Some(123)
    /\ configs["root"].interfaces_[EnvName]
           = <<[path |-> "_A", elem |-> "a"], [path |-> "_G", elem |-> "g"],
               [path |-> "_V", elem |-> "v"]>>
    /\ configs["root"].interfaces_[RapidjsonName] = <<>>

\* C17: in every Parse of the root, strict or lenient, every declared child
\* is attempted: each Variable of the tree whose path holds an int in the
\* source has that int stored after the pass, and the Vector holds the
\* elements of the source when its first index holds an int, whichever child
\* raised before.
C17_AllChildrenAttempted ==
    [][PassStep("Parse")
        => /\ \A n \in Variables :
                Yields(n) => variables'[n].value_ = FormatParse(source, PathOf(n))
           /\ ElementYields(0) => vectors'["v"].value_ = Some(Prefix(FirstGap))]_vars

\* The children of the root that throw when they parse the current source
\* strictly, as positions in the interfaces of the root, and the first.
RaisingChildren ==
    {i \in DOMAIN RootBuilt.configs["root"].interfaces_[FormatName] :
        ChildReport(i, TRUE).raised}
FirstRaising == CHOOSE i \in RaisingChildren : \A j \in RaisingChildren : i <= j
ChildAt(i) == RootBuilt.configs["root"].interfaces_[FormatName][i].elem

\* C18 (as claimed): a strict Parse of a root without a hook of its own
\* raises exactly when a child that is not optional raises; the error of an
\* optional child is swallowed whatever the root is.
C18_RethrowByChild ==
    [][(PassStep("Parse") /\ last'.throw_on_fail /\ "root" \notin validators)
        => (last'.raised
              <=> \E i \in RaisingChildren : ~ElemOptional(Store, ChildAt(i)))]_vars

\* C18 (amended): a strict Parse of a root without a hook of its own raises
\* exactly when the root is not optional and a child raises, optional or
\* not, and the error is that of the first child that raises.
C18_RethrowByGroup ==
    [][(PassStep("Parse") /\ last'.throw_on_fail /\ "root" \notin validators)
        => /\ last'.raised <=> (~configs["root"].optional_ /\ RaisingChildren # {})
           /\ last'.raised => last'.what = ChildReport(FirstRaising, TRUE).what]_vars

\* C18 witness: a strict Parse of a root that is not optional raised the
\* error of the hook of its optional, pre-seeded child a.
C18_Witness ==
    /\ last.op = "Parse" /\ last.throw_on_fail /\ last.raised
    /\ last.what = "invalid a"
    /\ ~configs["root"].optional_ /\ variables["a"].optional_
    /\ validators = {"a"}

\* C19: a lenient Parse of the interface of a Vector (throw_on_fail = false)
\* does not raise; when the Vector is mandatory and ends the probe unset it
\* returns false and Initialized() of the Vector is false.
C19_LenientVectorParseSilent ==
    (last.op = "ParseVector" /\ ~last.throw_on_fail)
        => /\ ~last.raised
           /\ (~vectors[last.elem].optional_ /\ vectors[last.elem].value_ = nullopt)
                => ~last.parsed

\* The first index at which the source yields no int for the element.
ProbeGap ==
    CHOOSE k \in 0..MaxLen :
        /\ FormatParse(source, ElementKey(probing.T, k)) = nullopt
        /\ \A j \in 0..(k - 1) : FormatParse(source, ElementKey(probing.T, j)) # nullopt

\* C20: Parse of a Vector stops probing at the first index at which the
\* source yields no element, whatever the type of the elements: the index
\* never passes it, also when the elements are Configs whose only child is
\* pre-seeded.
C20_ProbeStopsAtGap == probing.index <= ProbeGap

\* C21: a Parse of the interface of v from a source whose index 0 yields an
\* int leaves v holding exactly the ints the pass read, whatever v held
\* before (a default, a longer list of an earlier pass); a Parse from a
\* source whose index 0 yields none leaves v as it was.
C21_Replaced ==
    [][PassStep("ParseVector")
        => IF ElementYields(0)
           THEN vectors'["v"].value_ = Some(Prefix(FirstGap))
           ELSE vectors'["v"] = vectors["v"]]_vars

\* C21 witness: v holds the one int of a second Parse, made after the source
\* of a first Parse lost its elements but the first.
C21_Witness ==
    /\ last.op = "ParseVector" /\ passes = 2 /\ last.before
    /\ FirstGap = 1 /\ DOMAIN source = {ElementPath(0)}
    /\ vectors["v"].value_ = Some(Prefix(1))
    /\ ~vectors["v"].optional_

\* C22: a strict Emit of a root whose Variables are all set and whose v is
\* Initialized(), mandatory or optional, holding an empty list or not, does
\* not raise, and writes for v exactly the stored elements at their element
\* paths.
C22_EmitStopsSilently ==
    [][(PassStep("Emit") /\ last'.throw_on_fail /\ VariableInitialized(vectors["v"]))
        => /\ ~last'.raised
           /\ DOMAIN dest' \ VariablePaths
                  = {ElementPath(i) : i \in 0..(Len(vectors["v"].value_[1]) - 1)}
           /\ \A i \in 0..(Len(vectors["v"].value_[1]) - 1) :
                  dest'[ElementPath(i)] = JsonInt(vectors["v"].value_[1][i + 1])]_vars

\* C23: when the element at an index k >= 1 fails to parse, an int or a
\* Config with a missing mandatory Variable, the call ends there: k is the
\* first index at which the source yields no element, the Vector is
\* Initialized() with exactly the k elements parsed before, and Parse returns
\* true without raising, strict or lenient.
C23_KeepsEarlierElements ==
    (probing.at = "done" /\ probing.index >= 1)
        => /\ probing.index = ProbeGap
           /\ ~probing.raised /\ probing.parsed
           /\ VariableInitialized(probing)
           /\ Len(probing.value_[1]) = probing.index
           /\ \A i \in 0..(probing.index - 1) :
                  probing.value_[1][i + 1]
                      = ElementParse(probing.T, VectorElementPath(PathOf("v"), i),
                                     source).value[1]

\* C23 witness: a strict Parse of a mandatory Vector of VarConfig ended at
\* index 2, the mandatory Variable of the third element missing, with two
\* elements stored.
C23_Witness ==
    /\ probing.at = "done" /\ probing.T = "VarConfig" /\ probing.throw_on_fail
    /\ ~probing.optional_ /\ probing.index = 2
    /\ probing.last_error = Some(NotValid(ElementKey("VarConfig", 2), "variable is not set"))
    /\ Len(probing.value_[1]) = 2 /\ ~probing.raised /\ probing.parsed

\* C24 (as claimed): after a Parse of the root that returns, the root is
\* Initialized() exactly when the pass reported parsed and no mandatory node
\* below it, reached through Configs that are not optional, is left unset.
C24_InitializedNeedsParsed ==
    (last.op = "Parse" /\ ~last.raised)
        => (ConfigInitialized(Store, "root")
              <=> (last.parsed /\ MandatoryComplete("root")))

\* C24 (amended): after a Parse of the root that returns, the root is
\* Initialized() exactly when no mandatory node below it, reached through
\* Configs that are not optional, is left unset, whether the pass reported
\* parsed or not.
C24_InitializedIgnoresParsed ==
    (last.op = "Parse" /\ ~last.raised)
        => (ConfigInitialized(Store, "root") <=> MandatoryComplete("root"))

\* C24 witness: a Parse found nothing in the source and returned false, and
\* the root, whose Variables are all pre-seeded and whose v is optional, is
\* Initialized(), as its mandatory g is.
C24_Witness ==
    /\ last.op = "Parse" /\ ~last.raised /\ ~last.parsed
    /\ \A n \in Variables : variables[n].optional_
    /\ vectors["v"].optional_ /\ ~configs["g"].optional_
    /\ ConfigInitialized(Store, "g") /\ ConfigInitialized(Store, "root")

\* C25: a Parse of the interface of a Variable from a source that yields an
\* int at its path stores the int, so that the Variable is Initialized();
\* it raises exactly when it is strict and the hook of the Variable rejects
\* the int, and otherwise returns true, the int stored in either case.
C25_ValueStoredHookRun ==
    [][\A n \in Variables :
        (PassStep("ParseVariable") /\ last'.elem = n /\ Yields(n))
            => /\ variables'[n].value_ = FormatParse(source, PathOf(n))
               /\ VariableInitialized(variables'[n])
               /\ last'.raised
                    <=> (last'.throw_on_fail /\ n \in validators
                            /\ FormatParse(source, PathOf(n))[1] \in Rejected)
               /\ ~last'.raised => last'.parsed]_vars

\* C25 witness: a lenient Parse of a, whose hook rejects the int of the
\* source, returned true with the int stored.
C25_Witness ==
    /\ last.op = "ParseVariable" /\ last.elem = "a" /\ ~last.throw_on_fail
    /\ validators = {"a"} /\ Yields("a")
    /\ variables["a"].value_ = FormatParse(source, PathOf("a"))
    /\ variables["a"].value_[1] \in Rejected
    /\ ~last.raised /\ last.parsed

\* C26: after a Parse or an Emit of the root, whatever passes ran before,
\* each Config of the tree holds for the format of the pass one interface for
\* each child it declares and no more, no child twice, in declaration order
\* and at the paths under its own path.
C26_RebuiltEachPass ==
    (last.op \in {"Parse", "Emit"})
        => \A c \in Configs :
               /\ Len(configs[c].interfaces_[formatter]) = Cardinality(Children(c))
               /\ \A i, j \in DOMAIN configs[c].interfaces_[formatter] :
                      configs[c].interfaces_[formatter][i].elem
                          = configs[c].interfaces_[formatter][j].elem => i = j
               /\ configs[c].interfaces_[formatter]
                      = RegisteredFor(formatter, Decl(c, PathOf(c)), 1)
               /\ configs[c].elements_ = Children(c)

\* C26 witness: after an Emit and then a Parse of the same tree the root holds
\* three interfaces and g two.
C26_Witness ==
    /\ passes = 2 /\ last.op = "Parse" /\ dest # NoDocument
    /\ Len(configs["root"].interfaces_[formatter]) = 3
    /\ Len(configs["g"].interfaces_[formatter]) = 2


\* C27: nothing orders two passes on one Config: when a pass has built its
\* list after another pass entered its loop, every binding the other pass
\* iterates over has been destroyed, and only then; a pass that used a
\* destroyed binding is one whose list was rebuilt under it.
C27_RaceOnBindings ==
    \A t \in Threads :
        race.thread[t].pc \in {"loop", "crashed"}
            => /\ (\A k \in DOMAIN race.thread[t].range :
                       race.thread[t].range[k] \notin race.live)
                      <=> race.builds # race.thread[t].over
               /\ race.thread[t].dangling => race.builds # race.thread[t].over

\* The first thread is in its loop and has used a binding of the list that
\* the second thread, now in its own loop, has discarded and rebuilt.
C27_Witness ==
    /\ race.thread["first"].pc = "loop"
    /\ race.thread["first"].dangling
    /\ race.thread["first"].i > 1
    /\ race.thread["first"].range[1] \notin race.live
    /\ race.thread["second"].pc = "loop"
    /\ race.thread["second"].over = race.builds
    /\ race.thread["first"].over < race.builds

\* C28: strict and lenient Parse differ only in raising: when a strict
\* Parse of a freshly constructed root returns without raising, a lenient
\* Parse of the same fresh tree from the same source returns the same parsed
\* flag and leaves every Variable and Vector with the same value and every
\* object with the same Initialized().
C28_StrictLenientAgree ==
    [][(PassStep("Parse") /\ passes = 0 /\ last'.throw_on_fail /\ ~last'.raised)
        => \A lenient \in {ConfigParse(Store, "root", RootPath, source, FALSE)} :
               /\ ~lenient.raised
               /\ lenient.parsed = last'.parsed
               /\ lenient.st.variables = variables'
               /\ lenient.st.vectors = vectors'
               /\ \A c \in Configs :
                      ConfigInitialized(lenient.st, c) = ConfigInitialized(StoreNext, c)]_vars

\* C29: a strict Parse, of the root or of the interface of a Variable, that
\* raises the error of the hook of a Variable does not roll back: after the
\* error the Variable holds the int of the source, which the hook rejected,
\* and is Initialized(); a Variable that held its default holds it no more.
C29_RejectedValueKept ==
    [][\A n \in Variables :
        (passes' = passes + 1 /\ last'.op \in {"Parse", "ParseVariable"}
            /\ last'.throw_on_fail /\ last'.raised /\ last'.what = "invalid " \o n)
            => /\ Yields(n)
               /\ variables'[n].value_ = FormatParse(source, PathOf(n))
               /\ variables'[n].value_[1] \in Rejected
               /\ VariableInitialized(variables'[n])
               /\ variables[n].value_ = Some(DefaultInt)
                    => variables'[n].value_ # Some(DefaultInt)]_vars

\* C29 witness: the first pass, a strict Parse of the root, raised the error
\* of the hook of a, constructed with a default, and a holds the rejected int.
C29_Witness ==
    /\ last.op = "Parse" /\ passes = 1 /\ last.throw_on_fail
    /\ last.raised /\ last.what = "invalid a"
    /\ validators = {"a"} /\ variables["a"].optional_
    /\ variables["a"].value_ = FormatParse(source, PathOf("a"))
    /\ variables["a"].value_[1] \in Rejected

\* The position of g among the interfaces of the root.
GroupAt == CHOOSE i \in DOMAIN RootBuilt.configs["root"].interfaces_[FormatName] : ChildAt(i) = "g"

\* C30: when the source holds an int for exactly one of the two mandatory
\* Variables of an optional g, a strict Parse of a root that is not optional
\* does not raise on account of g: g swallows the error of its child, returns
\* true, is not Initialized() and holds the int that was present and nothing
\* for the other; the root raises only the error of another child, and when
\* it returns it reports parsed and is Initialized().
C30_PartialOptionalGroup ==
    [][(PassStep("Parse") /\ last'.throw_on_fail
            /\ ~configs["root"].optional_ /\ configs["g"].optional_
            /\ ~variables["x"].optional_ /\ ~variables["y"].optional_
            /\ Yields("x") # Yields("y"))
        => \A group \in {ChildReport(GroupAt, TRUE)} :
               /\ ~group.raised /\ group.parsed
               /\ ~ConfigInitialized(group.st, "g")
               /\ \A n \in Children("g") :
                      group.st.variables[n].value_ = FormatParse(source, PathOf(n))
               /\ GroupAt \notin RaisingChildren
               /\ last'.raised <=> RaisingChildren # {}
               /\ ~last'.raised
                    => /\ last'.parsed
                       /\ \A n \in Children("g") :
                              variables'[n].value_ = FormatParse(source, PathOf(n))
                       /\ ~ConfigInitialized(StoreNext, "g")
                       /\ ConfigInitialized(StoreNext, "root")]_vars

\* C30 witness: a strict Parse of a root that is not optional returned; the
\* optional g holds the y of the source and no x, and is not Initialized(),
\* while the root is.
C30_Witness ==
    /\ last.op = "Parse" /\ last.throw_on_fail /\ ~last.raised /\ last.parsed
    /\ ~configs["root"].optional_ /\ configs["g"].optional_
    /\ ~variables["x"].optional_ /\ ~variables["y"].optional_
    /\ ~Yields("x") /\ Yields("y")
    /\ variables["x"].value_ = nullopt
    /\ variables["y"].value_ = FormatParse(source, PathOf("y"))
    /\ ~ConfigInitialized(Store, "g") /\ ConfigInitialized(Store, "root")

====
